---- MODULE Spec2Model ----
(***************************************************************************)
(* Rigomator: the zustand store (object registry, cloud-ref registry, hand *)
(* data), the gesture decision tree of HandManager.predictWebcam and the   *)
(* React commit that mounts/unmounts one SmartObjectDispatcher per object. *)
(*                                                                         *)
(* Numbers.  Finger extension scores are hundredths (0..100 for 0.0..1.0). *)
(* The pinch distance is in thousandths of the normalised landmark space.  *)
(* Every metric is kept as an exact numerator over a fixed denominator     *)
(* (see the *Den definitions), so every threshold comparison of the source *)
(* is an exact integer comparison.                                         *)
(*                                                                         *)
(* Objects.  A PhysicsObject is [id, type, color]; position and velocity   *)
(* are opaque payload the store never inspects and are left out.  Ids are  *)
(* only ever compared for equality, so uuidv4() is modelled by the least   *)
(* number above every id some part of the state still holds.               *)
(***************************************************************************)
EXTENDS Integers, Sequences, FiniteSets

VARIABLES
    objects,      \* store.objects: the ordered list of PhysicsObject
    cloudRefs,    \* store.cloudRefs: the ids that have a registered cloud ref
    mounted,      \* the cloud SmartObjectDispatchers React has mounted
    spawned,      \* history (SpecSpawn): every object created, in call order
    plan,         \* input (SpecSpawn): which calls spawn a cloud, a liquid
    perturbed,    \* history: how many non-box / hit operations were issued
    last,         \* history: the store operation that ran last
    tracker,      \* what the hand Tracker returns for the current video frame
    trackerFace,  \* whether the face Tracker finds a face in that frame
    handData,     \* store.handData (present, gesture, metrics)
    faceData,     \* store.faceData (present)
    isPaused,     \* store.isPaused
    cameraEnabled,\* store.cameraEnabled
    streamRef,    \* HandManager streamRef.current # null
    starting,     \* the startWebcam calls awaiting getUserMedia
    leaked,       \* acquired streams streamRef lost without stopping them
    isPredicting, \* isPredicting.current: a predictWebcam callback is scheduled
    effectDue,    \* the [cameraIndex, cameraEnabled, isPaused] effect must run
    sampled,      \* history: what the last lifecycle or sampling step did
    isHandLost,   \* store.isHandLost
    lostTimer,    \* Overlay: ms left on the hand-lost timeout, NoTimer if none
    lostDeps,     \* Overlay: the deps the hand-lost effect last ran with
    sincePrediction, \* ms since lastPredictionTime, counted up to ThrottleMs
    absence,      \* history: samples and hand-lost events of this absence
    seenHand,     \* the handData the scene components last rendered with
    sqDist,       \* per dispatcher: squared distance to the interaction point
    isGrabbed,    \* per dispatcher: isGrabbed.current
    wasGrabbed,   \* history: isGrabbed.current before the last frame
    directive,    \* per dispatcher: the force and damping its last frame set
    stepped,      \* history: the last step was a frame of the dispatchers
    clock,        \* state.clock.elapsedTime at the last frame, in hundredths
    lastSpawnTime,\* GameLogic state lastSpawnTime (the value last set)
    lastClearTime,\* GameLogic state lastClearTime (the value last set)
    seenTimes,    \* the two times GameLogic last rendered with
    wasPresent,   \* GameLogic wasPresent.current
    stale,        \* frames run since GameLogic had to render again
    owed,         \* history: hand appearances minus 'connect' notifications
    hold,         \* history: when GameLogic first saw PinkyUp, its clears
    pacing,       \* history: ms since the last Tracker sample, passes returned since
    tint,        \* the object kind and emitter distances of a frame, and what the frame did
    loop,        \* the requestAnimationFrame callbacks pending, model loading, loadeddata
    isCameraSwitching, \* store.isCameraSwitching
    switchTimers, \* the setTimeout(() => setCameraSwitching(false), 800) calls pending
    environment, \* store.settings.environment
    lastGesture, \* Overlay state lastGesture
    gestureEdge, \* Overlay: the deps its gesture effect last ran with; history: entries
    absentFor    \* history: ms the hand has been absent with the camera running

regVars == <<objects, cloudRefs, mounted, spawned, plan, perturbed, last>>
handVars == <<tracker, trackerFace, handData, faceData, isPaused, cameraEnabled,
              streamRef, starting, leaked, isPredicting, effectDue, sampled>>
lostVars == <<isHandLost, lostTimer, lostDeps, sincePrediction, absence>>
grabVars == <<seenHand, sqDist, isGrabbed, wasGrabbed, directive, stepped>>
gameVars == <<clock, lastSpawnTime, lastClearTime, seenTimes, wasPresent, stale,
              owed, hold>>
envVars == <<environment, lastGesture, gestureEdge>>
extraVars == <<pacing, tint, loop, isCameraSwitching, switchTimers, envVars,
               absentFor>>
sceneVars == <<lostVars, grabVars, gameVars, extraVars>>
vars == <<objects, cloudRefs, mounted, spawned, plan, perturbed, last,
          tracker, trackerFace, handData, faceData, isPaused, cameraEnabled,
          streamRef, starting, leaked, isPredicting, effectDue, sampled,
          isHandLost, lostTimer, lostDeps, sincePrediction, absence,
          seenHand, sqDist, isGrabbed, wasGrabbed, directive, stepped,
          clock, lastSpawnTime, lastClearTime, seenTimes, wasPresent, stale,
          owed, hold,
          pacing,
          tint,
          loop,
          isCameraSwitching,
          switchTimers,
          environment,
          lastGesture,
          gestureEdge,
          absentFor>>

(***************************************************************************)
(* Bounds of the model.                                                    *)
(***************************************************************************)
\* largest id handed out under SpecRegistry (enough to overflow the capacity)
MaxSpawns == 102
\* largest id handed out under SpecSpawn (the 150 sequential spawns of the spec)
MaxSeqSpawns == 150
\* cloud/liquid spawns and update/remove hits in one behaviour
MaxPerturb == 1
\* startWebcam calls in flight at once
MaxStarts == 2
\* streams left running after streamRef was overwritten
MaxLeaked == 1
\* the last clock reading at which a frame runs, in hundredths of a second
MaxClock == 460
\* entries into the THREE_FINGERS gesture in one behaviour
MaxEntries == 13
\* the 800 ms timers of startWebcam pending at one time
MaxTimers == 2
\* objects GameLogic spawns in one behaviour
MaxGameSpawns == 3
\* frames that run before a render GameLogic is due
MaxStale == 1
\* the time since the last Tracker sample is counted up to this many ms
MaxSince == 64
\* the passes of predictWebcam that returned at the throttle are counted
\* up to this many
MaxReturned == 3

(***************************************************************************)
(* The object registry of the store.                                       *)
(***************************************************************************)
ObjectTypes == {"box", "liquid", "cloud"}

\* the id no uuid ever equals: what a caller holding a stale id passes
AbsentId == 0

Ids(objs) == {objs[i].id : i \in DOMAIN objs}

CloudIds(objs) == {objs[i].id : i \in {j \in DOMAIN objs : objs[j].type = "cloud"}}

NonCloudCount(objs) == Cardinality({i \in DOMAIN objs : objs[i].type # "cloud"})

\* Array.prototype.slice(from): the elements from index `from` (0-based) on
SliceFrom(objs, from) == SubSeq(objs, from + 1, Len(objs))

\* the colour addObject gives a new object
SpawnColor(type) ==
    IF type = "liquid" THEN "#00ffff"
    ELSE IF type = "cloud" THEN "#ffffff" ELSE "hsl"

\* limit = 100; if (type === 'liquid') limit = 100
limit(type) == IF type = "liquid" THEN 100 ELSE 100

newObject(type, id) == [id |-> id, type |-> type, color |-> SpawnColor(type)]

addObject_keepOldest(objs, type, id) ==
    LET newObjects == Append(objs, newObject(type, id))
    IN  IF Len(newObjects) > limit(type)
        THEN SubSeq(newObjects, 1, limit(type))
        ELSE newObjects

addObject_offByOne(objs, type, id) ==
    LET newObjects == Append(objs, newObject(type, id))
    IN  IF Len(newObjects) > limit(type) + 1
        THEN SliceFrom(newObjects, Len(newObjects) - limit(type))
        ELSE newObjects

\* addObject: append, then keep the last `limit` elements of the whole list
addObject(objs, type, id) ==
    LET newObjects == Append(objs, newObject(type, id))
    IN  IF Len(newObjects) > limit(type)
        THEN SliceFrom(newObjects, Len(newObjects) - limit(type))
        ELSE newObjects

\* updateObject: objects.map(obj => obj.id === id ? {...obj, ...data} : obj)
updateObject(objs, id, data) ==
    [i \in DOMAIN objs |->
        IF objs[i].id = id THEN [objs[i] EXCEPT !.color = data.color]
        ELSE objs[i]]

removeObject_inverted(objs, id) ==
    LET keep(o) == o.id = id IN SelectSeq(objs, keep)

\* removeObject: objects.filter(o => o.id !== id)
removeObject(objs, id) ==
    LET keep(o) == o.id # id IN SelectSeq(objs, keep)

addCloudRef(refs, id) == refs \cup {id}

removeCloudRef(refs, id) == refs \ {id}

clearObjects_keepRefs(objs, refs) == [objects |-> <<>>, cloudRefs |-> refs]

\* clearObjects: set({ objects: [], cloudRefs: {} })
clearObjects(objs, refs) == [objects |-> <<>>, cloudRefs |-> {}]

\* resetApp: set({ objects: [], settings, cameraResetTrigger }); cloudRefs is
\* not among the keys it sets
resetApp(objs, refs) == [objects |-> <<>>, cloudRefs |-> refs]

(***************************************************************************)
(* HandManager.predictWebcam: metrics and the gesture decision tree.       *)
(* A hand sample is [thumb, index, middle, ring, pinky, pinchDist]: the    *)
(* five getScore results in hundredths and the thumb-tip/index-tip         *)
(* distance in thousandths.                                                *)
(***************************************************************************)
NoHand == [hand |-> FALSE]

\* a frame on which detectForVideo throws
Throws == [hand |-> FALSE, throws |-> TRUE]

throws(t) == "throws" \in DOMAIN t

HandSample(t, i, m, r, p, d) ==
    [hand |-> TRUE, thumb |-> t, index |-> i, middle |-> m, ring |-> r,
     pinky |-> p, pinchDist |-> d]

Max0(x) == IF x > 0 THEN x ELSE 0

\* pinchScore = Math.max(0, 1 - pinchDist / 0.12), as a numerator over PinchDen
PinchDen == 120

pinchScore(s) == Max0(PinchDen - s.pinchDist)

\* avgFingerExt = (index + middle + ring + pinky) / 4, as a numerator over 400
avgFingerExt(s) == s.index + s.middle + s.ring + s.pinky

\* threeFingersScore = index * middle * ring * (1 - pinky), over 100^4
threeFingersScore(s) == s.index * s.middle * s.ring * (100 - s.pinky)

\* othersCurledStrict = (1 - index) * (1 - middle) * (1 - ring), over 100^3
othersCurledStrict(s) == (100 - s.index) * (100 - s.middle) * (100 - s.ring)

\* the GestureMetrics literal: pinch over PinchDen; palm, fist, peace over
\* 400; pointing, pinkyUp, threeFingers over 100^4
Metrics(s) ==
    [pinch |-> pinchScore(s),
     palm |-> avgFingerExt(s),
     fist |-> Max0(400 - (3 * avgFingerExt(s) + 2 * s.thumb)),
     peace |-> s.index + s.middle + (100 - s.ring) + (100 - s.pinky),
     pointing |-> s.index * (100 - s.middle) * (100 - s.ring) * (100 - s.pinky),
     pinkyUp |-> s.pinky * othersCurledStrict(s),
     threeFingers |-> threeFingersScore(s)]

\* the initial metrics of the store
ZeroMetrics ==
    [pinch |-> 0, palm |-> 0, fist |-> 0, peace |-> 0, pointing |-> 0,
     pinkyUp |-> 0, threeFingers |-> 0]

\* x > 0.6 for a numerator x over den
Above06(x, den) == 10 * x > 6 * den

Gesture_pinchFirst(s) ==
    LET metrics == Metrics(s)
    IN  IF Above06(metrics.pinch, PinchDen) THEN "PINCH"
        ELSE IF s.middle > 80 /\ s.index < 20 /\ s.ring < 20 /\ s.pinky < 20
        THEN "MIDDLE_FINGER"
        ELSE IF s.index > 80 /\ s.middle < 20 /\ s.ring < 20 /\ s.pinky < 20
        THEN "POINTING"
        ELSE IF s.pinky > 75 /\ s.index < 15 /\ s.middle < 15 /\ s.ring < 15
        THEN "PINKY_UP"
        ELSE IF Above06(metrics.threeFingers, 100000000) THEN "THREE_FINGERS"
        ELSE IF Above06(metrics.peace, 400) THEN "PEACE"
        ELSE IF 100 * avgFingerExt(s) < 15 * 400 THEN "CLOSED_FIST"
        ELSE IF 10 * metrics.palm > 5 * 400 THEN "OPEN_PALM"
        ELSE "NONE"

Gesture_pointingFirst(s) ==
    LET metrics == Metrics(s)
    IN  IF s.middle > 80 /\ s.index < 20 /\ s.ring < 20 /\ s.pinky < 20
        THEN "MIDDLE_FINGER"
        ELSE IF s.index > 80 /\ s.middle < 20 /\ s.ring < 20 /\ s.pinky < 20
        THEN "POINTING"
        ELSE IF Above06(metrics.pinch, PinchDen) THEN "PINCH"
        ELSE IF s.pinky > 75 /\ s.index < 15 /\ s.middle < 15 /\ s.ring < 15
        THEN "PINKY_UP"
        ELSE IF Above06(metrics.threeFingers, 100000000) THEN "THREE_FINGERS"
        ELSE IF Above06(metrics.peace, 400) THEN "PEACE"
        ELSE IF 100 * avgFingerExt(s) < 15 * 400 THEN "CLOSED_FIST"
        ELSE IF 10 * metrics.palm > 5 * 400 THEN "OPEN_PALM"
        ELSE "NONE"

Gesture_peaceFirst(s) ==
    LET metrics == Metrics(s)
    IN  IF s.middle > 80 /\ s.index < 20 /\ s.ring < 20 /\ s.pinky < 20
        THEN "MIDDLE_FINGER"
        ELSE IF Above06(metrics.pinch, PinchDen) THEN "PINCH"
        ELSE IF s.index > 80 /\ s.middle < 20 /\ s.ring < 20 /\ s.pinky < 20
        THEN "POINTING"
        ELSE IF s.pinky > 75 /\ s.index < 15 /\ s.middle < 15 /\ s.ring < 15
        THEN "PINKY_UP"
        ELSE IF Above06(metrics.peace, 400) THEN "PEACE"
        ELSE IF Above06(metrics.threeFingers, 100000000) THEN "THREE_FINGERS"
        ELSE IF 100 * avgFingerExt(s) < 15 * 400 THEN "CLOSED_FIST"
        ELSE IF 10 * metrics.palm > 5 * 400 THEN "OPEN_PALM"
        ELSE "NONE"

\* the if / else-if chain that sets `gesture`
Gesture(s) ==
    LET metrics == Metrics(s)
    IN  IF s.middle > 80 /\ s.index < 20 /\ s.ring < 20 /\ s.pinky < 20
        THEN "MIDDLE_FINGER"
        ELSE IF Above06(metrics.pinch, PinchDen) THEN "PINCH"
        ELSE IF s.index > 80 /\ s.middle < 20 /\ s.ring < 20 /\ s.pinky < 20
        THEN "POINTING"
        ELSE IF s.pinky > 75 /\ s.index < 15 /\ s.middle < 15 /\ s.ring < 15
        THEN "PINKY_UP"
        ELSE IF Above06(metrics.threeFingers, 100000000) THEN "THREE_FINGERS"
        ELSE IF Above06(metrics.peace, 400) THEN "PEACE"
        ELSE IF 100 * avgFingerExt(s) < 15 * 400 THEN "CLOSED_FIST"
        ELSE IF 10 * metrics.palm > 5 * 400 THEN "OPEN_PALM"
        ELSE "NONE"

\* setHandData(data): { ...state.handData, ...data }, for the two partial
\* updates the source makes
setHandData_present(hd, present) == [hd EXCEPT !.present = present]

setHandData_presentGesture(hd, present, gesture) ==
    [hd EXCEPT !.present = present, !.gesture = gesture]

\* predictWebcam, a sample with a hand: setHandData({present: true, gesture,
\* metrics, ...})
handSample(s) ==
    [present |-> TRUE, gesture |-> Gesture(s), metrics |-> Metrics(s)]

\* predictWebcam, a sample without a hand
noHandSample(hd) == setHandData_presentGesture(hd, FALSE, "NONE")

\* setFaceData(data), for the presence flag
setFaceData_present(fd, present) == [fd EXCEPT !.present = present]

failedSample_reset(hd, fd) ==
    [handData |-> noHandSample(hd), faceData |-> setFaceData_present(fd, FALSE)]

\* predictWebcam's catch: the frame is dropped, nothing is published
failedSample(hd, fd) == [handData |-> hd, faceData |-> fd]

(***************************************************************************)
(* The state after construction (create<AppState>, first render).          *)
(***************************************************************************)
NoOp == [op |-> "none", hit |-> FALSE, had |-> FALSE]

InitRegistry ==
    /\ objects = <<>>
    /\ cloudRefs = {}
    /\ mounted = {}
    /\ spawned = <<>>
    /\ plan = [cloudEvery |-> 0, liquidEvery |-> 0]
    /\ perturbed = 0
    /\ last = NoOp

InitHand ==
    /\ tracker = NoHand
    /\ trackerFace = FALSE
    /\ handData = [present |-> FALSE, gesture |-> "NONE", metrics |-> ZeroMetrics]
    /\ faceData = [present |-> FALSE]
    /\ isPaused = FALSE
    /\ cameraEnabled = TRUE
    /\ streamRef = FALSE
    /\ starting = 0
    /\ leaked = 0
    /\ isPredicting = FALSE
    /\ effectDue = TRUE
    /\ sampled = "none"

\* Overlay before its first effect ran; lastPredictionTime = 0
NoTimer == -1

ThrottleMs == 32

NoAbsence == [samples |-> 0, fires |-> 0]

InitLost ==
    /\ isHandLost = FALSE
    /\ lostTimer = NoTimer
    /\ lostDeps = <<>>
    /\ sincePrediction = ThrottleMs
    /\ absence = NoAbsence

\* what a component reads of handData in its frame callback
Seen(hd) == [present |-> hd.present, gesture |-> hd.gesture]

\* the first render; no SmartObjectDispatcher is mounted
InitGrabbing ==
    /\ seenHand = [present |-> FALSE, gesture |-> "NONE"]
    /\ sqDist = <<>>
    /\ isGrabbed = <<>>
    /\ wasGrabbed = <<>>
    /\ directive = <<>>
    /\ stepped = FALSE

\* GameLogic at its first render: useState(0), useState(0), useRef(false)
NoHold == [start |-> -1, clears |-> 0]

InitGameLogic ==
    /\ clock = 0
    /\ lastSpawnTime = 0
    /\ lastClearTime = 0
    /\ seenTimes = [spawn |-> 0, clear |-> 0]
    /\ wasPresent = FALSE
    /\ stale = 0
    /\ owed = 0
    /\ hold = NoHold

\* no sample has reached the Tracker; the video shows no frame yet
NoPacing == [since |-> -1, returned |-> 0, gap |-> -1, between |-> 0,
             fresh |-> FALSE]

\* PROXIMITY TINT: no frame has evaluated it
NotEvaluated == [toward |-> "unset", factor |-> 0]

NoTint == [type |-> "box", dists |-> {}, out |-> NotEvaluated]

\* HandManager at mount: no callback scheduled, the landmarkers not loaded,
\* no onloadeddata handler waiting
NoLoop == [pending |-> 0, modelLoaded |-> FALSE, modelEffectDue |-> FALSE,
           loadedDataDue |-> FALSE]

\* Overlay before its gesture effect ran; no entry into THREE_FINGERS
NoEdge == [deps |-> <<>>, entries |-> 0]

InitExtra ==
    /\ pacing = NoPacing
    /\ tint = NoTint
    /\ loop = NoLoop
    /\ isCameraSwitching = FALSE
    /\ switchTimers = 0
    /\ environment = "grid"
    /\ lastGesture = "NONE"
    /\ gestureEdge = NoEdge
    /\ absentFor = 0

InitScene == InitLost /\ InitGrabbing /\ InitGameLogic /\ InitExtra

Init == InitRegistry /\ InitHand /\ InitScene

(***************************************************************************)
(* Store operations, one action per call.  `last` records the call: its    *)
(* name, whether its id argument named a live object (hit), and whether    *)
(* the registry held an object and a cloud ref when it was called (had).   *)
(***************************************************************************)
Had == objects # <<>> /\ cloudRefs # {}

SetMax(S) == CHOOSE x \in S : \A y \in S : y <= x

\* uuidv4(): an id no object, cloud ref or mounted dispatcher holds
uuidv4 == 1 + SetMax(Ids(objects) \cup cloudRefs \cup mounted \cup {AbsentId})

\* handleLogoHover (cloud), GameLogic Pointing (box) and Peace (liquid)
AddObject(type) ==
    /\ objects' = addObject(objects, type, uuidv4)
    /\ last' = [op |-> "addObject", hit |-> TRUE, had |-> Had]
    /\ UNCHANGED <<cloudRefs, mounted>>

UpdateObject(id, data) ==
    /\ objects' = updateObject(objects, id, data)
    /\ last' = [op |-> "updateObject", hit |-> id \in Ids(objects), had |-> Had]
    /\ UNCHANGED <<cloudRefs, mounted>>

RemoveObject(id) ==
    /\ objects' = removeObject(objects, id)
    /\ last' = [op |-> "removeObject", hit |-> id \in Ids(objects), had |-> Had]
    /\ UNCHANGED <<cloudRefs, mounted>>

ClearObjects ==
    /\ objects' = clearObjects(objects, cloudRefs).objects
    /\ cloudRefs' = clearObjects(objects, cloudRefs).cloudRefs
    /\ last' = [op |-> "clearObjects", hit |-> TRUE, had |-> Had]
    /\ UNCHANGED mounted

ResetApp ==
    /\ objects' = resetApp(objects, cloudRefs).objects
    /\ cloudRefs' = resetApp(objects, cloudRefs).cloudRefs
    /\ last' = [op |-> "resetApp", hit |-> TRUE, had |-> Had]
    /\ UNCHANGED mounted

(***************************************************************************)
(* The React commit of PhysicsScene after the store changed: one           *)
(* SmartObjectDispatcher per object, keyed by id.  Only a cloud dispatcher *)
(* has an effect: mounting calls addCloudRef(id), and the cleanup, run     *)
(* when its key has left the list, calls removeCloudRef(id).  `mounted`    *)
(* holds the ids of the cloud dispatchers whose effect has run.            *)
(***************************************************************************)
RECURSIVE FoldRefs(_, _, _)
FoldRefs(op(_, _), refs, ids) ==
    IF ids = {} THEN refs
    ELSE LET id == CHOOSE x \in ids : TRUE
         IN  FoldRefs(op, op(refs, id), ids \ {id})

Render ==
    LET now == CloudIds(objects)
    IN  /\ mounted # now
        /\ mounted' = now
        /\ cloudRefs' = FoldRefs(addCloudRef,
                                 FoldRefs(removeCloudRef, cloudRefs, mounted \ now),
                                 now \ mounted)
        /\ last' = [op |-> "render", hit |-> TRUE, had |-> Had]
        /\ UNCHANGED objects

\* the ids a caller passes: the oldest and the newest live id, and a stale one
ProbeIds ==
    {AbsentId} \cup (IF objects = <<>> THEN {}
                     ELSE {objects[1].id, objects[Len(objects)].id})

UpdateData == {[color |-> "#ff0000"]}

\* the bound on the calls that leave a mark in the list: a cloud or liquid
\* spawn, an update or a remove whose id is live
Budget(marks) ==
    /\ marks => perturbed < MaxPerturb
    /\ perturbed' = IF marks THEN perturbed + 1 ELSE perturbed

otherVars == <<spawned, plan, handVars, sceneVars>>

NextRegistry ==
    \/ \E type \in ObjectTypes :
          /\ uuidv4 <= MaxSpawns
          /\ Budget(type # "box")
          /\ AddObject(type)
          /\ UNCHANGED otherVars
    \/ \E id \in ProbeIds, data \in UpdateData :
          Budget(id \in Ids(objects)) /\ UpdateObject(id, data) /\ UNCHANGED otherVars
    \/ \E id \in ProbeIds :
          Budget(id \in Ids(objects)) /\ RemoveObject(id) /\ UNCHANGED otherVars
    \/ ClearObjects /\ UNCHANGED <<perturbed, otherVars>>
    \/ ResetApp /\ UNCHANGED <<perturbed, otherVars>>
    \/ Render /\ UNCHANGED <<perturbed, otherVars>>

SpecRegistry == Init /\ [][NextRegistry]_vars

(***************************************************************************)
(* n sequential addObject calls on the empty registry, each recorded.  The *)
(* type of the k-th call follows the plan drawn at the start: a cloud      *)
(* every plan.cloudEvery-th call, a liquid every plan.liquidEvery-th call  *)
(* (0: never), a box otherwise.                                            *)
(***************************************************************************)
Periods == {0, 1, 2, 3, 7, 50, 101}

PlannedType(k) ==
    IF plan.cloudEvery > 0 /\ k % plan.cloudEvery = 0 THEN "cloud"
    ELSE IF plan.liquidEvery > 0 /\ k % plan.liquidEvery = 0 THEN "liquid"
    ELSE "box"

InitSpawn ==
    /\ InitHand
    /\ InitScene
    /\ objects = <<>>
    /\ cloudRefs = {}
    /\ mounted = {}
    /\ spawned = <<>>
    /\ plan \in [cloudEvery : Periods, liquidEvery : Periods]
    /\ perturbed = 0
    /\ last = NoOp

NextSpawn ==
    /\ uuidv4 <= MaxSeqSpawns
    /\ AddObject(PlannedType(Len(spawned) + 1))
    /\ spawned' = Append(spawned, newObject(PlannedType(Len(spawned) + 1), uuidv4))
    /\ UNCHANGED <<plan, perturbed, handVars, sceneVars>>

SpecSpawn == InitSpawn /\ [][NextSpawn]_vars

(***************************************************************************)
(* HandManager: the camera lifecycle and the sampling loop.  The video     *)
(* element and both landmarkers are in place before the first stream is.   *)
(***************************************************************************)
\* stopWebcam: with a stream held, stop its tracks and publish both
\* presences false; in every case end the sampling loop
stopWebcam(hd, fd, stream) ==
    [handData |-> IF stream THEN setHandData_present(hd, FALSE) ELSE hd,
     faceData |-> IF stream THEN setFaceData_present(fd, FALSE) ELSE fd,
     streamRef |-> FALSE,
     isPredicting |-> FALSE]

\* Overlay: setPaused(!isPaused) (Escape, the pause button, RESUME)
SetPaused ==
    /\ isPaused' = ~isPaused
    /\ effectDue' = TRUE
    /\ UNCHANGED <<tracker, trackerFace, handData, faceData, cameraEnabled,
                   streamRef, starting, leaked, isPredicting, sampled>>

\* Overlay: toggleCamera()
ToggleCamera ==
    /\ cameraEnabled' = ~cameraEnabled
    /\ effectDue' = TRUE
    /\ UNCHANGED <<tracker, trackerFace, handData, faceData, isPaused,
                   streamRef, starting, leaked, isPredicting, sampled>>

\* useEffect(..., [cameraIndex, cameraEnabled, isPaused]): when the camera
\* should run, stop the stream held (if any) and call startWebcam; otherwise
\* stopWebcam
RunEffect ==
    LET shouldRun == cameraEnabled /\ ~isPaused
        stops == ~shouldRun \/ streamRef
        stopped == stopWebcam(handData, faceData, streamRef)
    IN  /\ effectDue
        /\ shouldRun => starting < MaxStarts
        /\ effectDue' = FALSE
        /\ handData' = IF stops THEN stopped.handData ELSE handData
        /\ faceData' = IF stops THEN stopped.faceData ELSE faceData
        /\ streamRef' = IF stops THEN stopped.streamRef ELSE streamRef
        /\ isPredicting' = IF stops THEN stopped.isPredicting ELSE isPredicting
        /\ starting' = IF shouldRun THEN starting + 1 ELSE starting
        /\ sampled' = IF shouldRun THEN "start" ELSE "stop"
        /\ UNCHANGED <<tracker, trackerFace, isPaused, cameraEnabled, leaked>>

\* startWebcam after getUserMedia resolved: streamRef.current = stream (the
\* stream held before is not stopped), then playAndPredict starts the
\* sampling loop unless one is running
StartResolve ==
    /\ starting > 0
    /\ streamRef => leaked < MaxLeaked
    /\ starting' = starting - 1
    /\ leaked' = IF streamRef THEN leaked + 1 ELSE leaked
    /\ streamRef' = TRUE
    /\ isPredicting' = TRUE
    /\ sampled' = "installed"
    /\ UNCHANGED <<tracker, trackerFace, handData, faceData, isPaused,
                   cameraEnabled, effectDue>>

\* startWebcam's catch: no stream
StartFail ==
    /\ starting > 0
    /\ starting' = starting - 1
    /\ UNCHANGED <<tracker, trackerFace, handData, faceData, isPaused,
                   cameraEnabled, streamRef, leaked, isPredicting, effectDue,
                   sampled>>

\* the video element shows a new frame: what the detectForVideo calls will
\* return
Frame(t, f) ==
    /\ streamRef
    /\ tracker' = t
    /\ trackerFace' = f
    /\ UNCHANGED <<handData, faceData, isPaused, cameraEnabled, streamRef,
                   starting, leaked, isPredicting, effectDue, sampled>>

\* one pass of predictWebcam that reaches the detectForVideo calls: the loop
\* is scheduled and the video has a frame.  (The pass tests the
\* cameraEnabled and isPaused of the render that started the loop, and
\* startWebcam only runs in a render where the camera should run.)
PredictWebcam ==
    LET failed == failedSample(handData, faceData)
    IN  /\ isPredicting
        /\ streamRef
        /\ handData' = IF throws(tracker) THEN failed.handData
                       ELSE IF tracker.hand THEN handSample(tracker)
                       ELSE noHandSample(handData)
        /\ faceData' = IF throws(tracker) THEN failed.faceData
                       ELSE setFaceData_present(faceData, trackerFace)
        /\ sampled' = IF throws(tracker) THEN "dropped"
                      ELSE IF tracker.hand THEN "hand" ELSE "nohand"
        /\ UNCHANGED <<tracker, trackerFace, isPaused, cameraEnabled, streamRef,
                       starting, leaked, isPredicting, effectDue>>

\* one hand pose per gesture of the decision tree
HandSamples ==
    {HandSample(0, 0, 100, 0, 0, 100),        \* middle finger
     HandSample(50, 50, 50, 50, 50, 10),      \* pinch
     HandSample(0, 100, 0, 0, 0, 100),        \* pointing
     HandSample(0, 0, 0, 0, 100, 100),        \* pinky up
     HandSample(0, 100, 100, 100, 0, 100),    \* three fingers
     HandSample(0, 100, 100, 0, 0, 100),      \* peace
     HandSample(0, 0, 0, 0, 0, 100),          \* closed fist
     HandSample(100, 100, 100, 100, 100, 100),\* open palm
     HandSample(50, 40, 40, 40, 40, 100)}     \* none

handRest == <<regVars, sceneVars>>

NextHand ==
    \/ SetPaused /\ UNCHANGED handRest
    \/ ToggleCamera /\ UNCHANGED handRest
    \/ RunEffect /\ UNCHANGED handRest
    \/ StartResolve /\ UNCHANGED handRest
    \/ StartFail /\ UNCHANGED handRest
    \/ \E t \in HandSamples \cup {NoHand, Throws}, f \in BOOLEAN :
          Frame(t, f) /\ UNCHANGED handRest
    \/ PredictWebcam /\ UNCHANGED handRest

SpecHand == Init /\ [][NextHand]_vars

(***************************************************************************)
(* Overlay: the hand-lost effect.  Time is in milliseconds and passes in   *)
(* Elapse steps; an effect whose deps changed and a timer that is due run  *)
(* before more time passes.  A sample reaches the Tracker only ThrottleMs  *)
(* after the one before.                                                   *)
(***************************************************************************)
\* setHandLost(lost): nothing is set when the flag already has that value
setHandLost(cur, lost) == IF cur = lost THEN cur ELSE lost

\* setTimeout(..., 1000)
LostDelay == 1000

lostDepsNow == <<handData.present, isPaused, cameraEnabled>>

\* the effect without its cleanup: the timeout of the run before stays armed
HandLostEffect_noCleanup ==
    /\ lostDeps # lostDepsNow
    /\ lostDeps' = lostDepsNow
    /\ IF ~handData.present /\ ~isPaused /\ cameraEnabled
       THEN lostTimer' = LostDelay /\ isHandLost' = isHandLost
       ELSE lostTimer' = lostTimer /\ isHandLost' = setHandLost(isHandLost, FALSE)
    /\ UNCHANGED <<sincePrediction, absence>>

\* useEffect(..., [handData.present, isPaused, cameraEnabled, ...]): the
\* cleanup clears the timeout of the run before
HandLostEffect ==
    /\ lostDeps # lostDepsNow
    /\ lostDeps' = lostDepsNow
    /\ IF ~handData.present /\ ~isPaused /\ cameraEnabled
       THEN lostTimer' = LostDelay /\ isHandLost' = isHandLost
       ELSE lostTimer' = NoTimer /\ isHandLost' = setHandLost(isHandLost, FALSE)
    /\ UNCHANGED <<sincePrediction, absence>>

\* the timeout callback: setHandLost(true).  The hand-lost event is the
\* flag going from false to true.
LostTimeout ==
    /\ lostTimer = 0
    /\ lostTimer' = NoTimer
    /\ isHandLost' = setHandLost(isHandLost, TRUE)
    /\ absence' = IF ~isHandLost /\ ~handData.present /\ absence.fires < 2
                  THEN [absence EXCEPT !.fires = @ + 1] ELSE absence
    /\ UNCHANGED <<lostDeps, sincePrediction>>

ElapseSteps == {32, 1000}

Elapse(d) ==
    /\ lostTimer # 0
    /\ lostDeps = lostDepsNow
    /\ ~effectDue
    /\ lostTimer' = IF lostTimer = NoTimer THEN NoTimer ELSE Max0(lostTimer - d)
    /\ sincePrediction' = IF sincePrediction + d > ThrottleMs THEN ThrottleMs
                          ELSE sincePrediction + d
    /\ UNCHANGED <<isHandLost, lostDeps, absence>>

\* predictWebcam past `if (now - lastPredictionTime.current < 32) return`,
\* with the absence the sample continues or ends
ThrottledPredict ==
    /\ sincePrediction >= ThrottleMs
    /\ PredictWebcam
    /\ sincePrediction' = 0
    /\ absence' = IF handData'.present THEN NoAbsence
                  ELSE IF sampled' = "nohand" /\ absence.samples < 3
                  THEN [absence EXCEPT !.samples = @ + 1]
                  ELSE absence
    /\ UNCHANGED <<isHandLost, lostTimer, lostDeps>>

\* a frame without a hand, a frame with a pointing hand
LostSamples == {NoHand, HandSample(0, 100, 0, 0, 0, 100)}

lostRest == <<grabVars, gameVars, extraVars>>

NextLost ==
    \/ SetPaused /\ UNCHANGED <<regVars, sceneVars>>
    \/ ToggleCamera /\ UNCHANGED <<regVars, sceneVars>>
    \/ RunEffect /\ UNCHANGED <<regVars, sceneVars>>
    \/ StartResolve /\ UNCHANGED <<regVars, sceneVars>>
    \/ \E t \in LostSamples : Frame(t, FALSE) /\ UNCHANGED <<regVars, sceneVars>>
    \/ ThrottledPredict /\ UNCHANGED <<regVars, lostRest>>
    \/ HandLostEffect /\ UNCHANGED <<regVars, handVars, lostRest>>
    \/ LostTimeout /\ UNCHANGED <<regVars, handVars, lostRest>>
    \/ \E d \in ElapseSteps : Elapse(d) /\ UNCHANGED <<regVars, handVars, lostRest>>

SpecLost == Init /\ [][NextLost]_vars

(***************************************************************************)
(* The hand-lost effect again, with the length of the absence measured:    *)
(* absentFor is the time for which the hand has been absent with the       *)
(* simulation running and the camera enabled, counted up to LostDelay.  A  *)
(* click is handled once the effects of the commit before it have run.     *)
(***************************************************************************)
LostCond == ~handData.present /\ ~isPaused /\ cameraEnabled

\* a step of HandManager or of the user ends the absence or leaves it
Measured(A) == A /\ absentFor' = IF LostCond' THEN absentFor ELSE 0

MeasuredElapse(d) ==
    /\ Elapse(d)
    /\ absentFor' = IF LostCond
                    THEN (IF absentFor + d > LostDelay THEN LostDelay
                          ELSE absentFor + d)
                    ELSE 0

absentRest == <<regVars, grabVars, gameVars, pacing, tint, loop,
                isCameraSwitching, switchTimers, envVars>>

NextAbsent ==
    \/ /\ lostDeps = lostDepsNow /\ ~effectDue
       /\ Measured(SetPaused)
       /\ UNCHANGED <<absentRest, lostVars>>
    \/ /\ lostDeps = lostDepsNow /\ ~effectDue
       /\ Measured(ToggleCamera)
       /\ UNCHANGED <<absentRest, lostVars>>
    \/ Measured(RunEffect) /\ UNCHANGED <<absentRest, lostVars>>
    \/ Measured(StartResolve) /\ UNCHANGED <<absentRest, lostVars>>
    \/ \E t \in LostSamples :
          Measured(Frame(t, FALSE)) /\ UNCHANGED <<absentRest, lostVars>>
    \/ Measured(ThrottledPredict) /\ UNCHANGED absentRest
    \/ HandLostEffect /\ UNCHANGED <<absentRest, handVars, absentFor>>
    \/ LostTimeout /\ UNCHANGED <<absentRest, handVars, absentFor>>
    \/ \E d \in ElapseSteps :
          MeasuredElapse(d) /\ UNCHANGED <<absentRest, handVars>>

SpecAbsent == Init /\ [][NextAbsent]_vars

(***************************************************************************)
(* predictWebcam as the requestAnimationFrame callback.  pacing.fresh is   *)
(* lastVideoTime.current # videoRef.current.currentTime; pacing.since is   *)
(* the time since the last sample that reached detectForVideo, gap the     *)
(* time between the last two of them and between the passes that returned  *)
(* at the throttle in that time.                                           *)
(***************************************************************************)
throttled_never(since) == FALSE

\* if (now - lastPredictionTime.current < 32) return
throttled(since) == since < ThrottleMs

Min(a, b) == IF a < b THEN a ELSE b

\* the callback runs d ms after the pass before it
AnimationFrame(d) ==
    LET sincePass == Min(sincePrediction + d, ThrottleMs)
        sinceSample == IF pacing.since < 0 THEN -1
                       ELSE Min(pacing.since + d, MaxSince)
    IN  /\ isPredicting
        /\ streamRef
        /\ IF throttled(sincePass)
           THEN /\ sincePrediction' = sincePass
                /\ pacing' = [pacing EXCEPT !.since = sinceSample,
                                            !.returned = Min(@ + 1, MaxReturned)]
                /\ UNCHANGED handVars
           ELSE /\ sincePrediction' = 0
                /\ IF pacing.fresh
                   THEN /\ PredictWebcam
                        /\ pacing' = [since |-> 0, returned |-> 0,
                                      gap |-> sinceSample,
                                      between |-> pacing.returned,
                                      fresh |-> FALSE]
                   ELSE /\ pacing' = [pacing EXCEPT !.since = sinceSample]
                        /\ UNCHANGED handVars
        /\ UNCHANGED <<isHandLost, lostTimer, lostDeps, absence, tint, loop,
                       isCameraSwitching, switchTimers, envVars, absentFor>>

\* the video element shows a new frame
VideoFrame(t, f) ==
    /\ Frame(t, f)
    /\ pacing' = [pacing EXCEPT !.fresh = TRUE]
    /\ UNCHANGED <<tint, loop, isCameraSwitching, switchTimers, envVars,
                   absentFor>>

\* displays of 240, 120 and 60 frames a second
FrameSteps == {4, 8, 16}

PaceSamples == {NoHand, HandSample(0, 100, 0, 0, 0, 100)}

NextPace ==
    \/ \E t \in PaceSamples, f \in BOOLEAN :
          VideoFrame(t, f) /\ UNCHANGED <<regVars, lostVars, grabVars, gameVars>>
    \/ \E d \in FrameSteps :
          AnimationFrame(d) /\ UNCHANGED <<regVars, grabVars, gameVars>>

(***************************************************************************)
(* SmartObjectDispatcher: the grab logic of its frame callback.  Squared   *)
(* distances and damping values are in hundredths.  The callback reads the *)
(* handData of the render it was created in; sqDist[id] stands for the     *)
(* distance between that render's worldPosition and the body's position.   *)
(***************************************************************************)
PinchSeen(h) == h.present /\ h.gesture = "PINCH"

grabStep_wideAcquire(g, h, d) ==
    IF PinchSeen(h)
    THEN IF d < 2500 THEN TRUE ELSE IF d > 2500 THEN FALSE ELSE g
    ELSE FALSE

grabStep_noBand(g, h, d) ==
    IF PinchSeen(h) THEN d < 1225 ELSE FALSE

grabStep_sticky(g, h, d) ==
    IF PinchSeen(h)
    THEN IF d < 1225 THEN TRUE ELSE IF d > 2500 THEN FALSE ELSE g
    ELSE g

\* if (present && gesture === PINCH) { if (sqDist < 12.25) true; else if
\* (sqDist > 25) false } else false
grabStep(g, h, d) ==
    IF PinchSeen(h)
    THEN IF d < 1225 THEN TRUE ELSE IF d > 2500 THEN FALSE ELSE g
    ELSE FALSE

\* the body's damping before any frame: linearDamping of the hook props
Unset == -1

baselineLinear(type) == IF type = "cloud" THEN 95 ELSE 5

bodyProps(type) ==
    [force |-> FALSE, linearDamping |-> baselineLinear(type),
     angularDamping |-> Unset]

\* what one frame sets, given isGrabbed.current after the grab logic: the
\* spring force and its damping while grabbed, the freeze on ClosedFist,
\* the baseline otherwise
frameDirective(g, h, type) ==
    IF g
    THEN [force |-> TRUE, linearDamping |-> 0, angularDamping |-> 90]
    ELSE IF h.gesture = "CLOSED_FIST"
    THEN [force |-> FALSE, linearDamping |-> 99, angularDamping |-> 99]
    ELSE [force |-> FALSE, linearDamping |-> baselineLinear(type),
          angularDamping |-> 5]

TypeOf(id) ==
    LET i == CHOOSE j \in DOMAIN objects : objects[j].id = id
    IN  objects[i].type

\* one frame of the render loop (frameloop is 'never' while paused): the
\* callback of every mounted dispatcher runs
DispatcherFrames ==
    /\ ~isPaused
    /\ wasGrabbed' = isGrabbed
    /\ isGrabbed' = [id \in DOMAIN isGrabbed |->
                        grabStep(isGrabbed[id], seenHand, sqDist[id])]
    /\ directive' = [id \in DOMAIN isGrabbed |->
                        frameDirective(isGrabbed'[id], seenHand, TypeOf(id))]
    /\ stepped' = TRUE
    /\ UNCHANGED <<seenHand, sqDist>>

\* the store changed and the scene components rendered again
RenderScene ==
    /\ seenHand # Seen(handData)
    /\ seenHand' = Seen(handData)
    /\ stepped' = FALSE
    /\ UNCHANGED <<sqDist, isGrabbed, wasGrabbed, directive>>

DistGrid == {1224, 1225, 2500, 2501}

\* the physics step and the hand move a body relative to the interaction
\* point
Move(id, d) ==
    /\ sqDist[id] # d
    /\ sqDist' = [sqDist EXCEPT ![id] = d]
    /\ stepped' = FALSE
    /\ UNCHANGED <<seenHand, isGrabbed, wasGrabbed, directive>>

\* the scene holds a box and a cloud, the camera runs
GrabScene == <<newObject("box", 1), newObject("cloud", 2)>>

InitGrab ==
    /\ objects = GrabScene
    /\ cloudRefs = CloudIds(GrabScene)
    /\ mounted = CloudIds(GrabScene)
    /\ spawned = <<>>
    /\ plan = [cloudEvery |-> 0, liquidEvery |-> 0]
    /\ perturbed = 0
    /\ last = NoOp
    /\ tracker = NoHand
    /\ trackerFace = FALSE
    /\ handData = [present |-> FALSE, gesture |-> "NONE", metrics |-> ZeroMetrics]
    /\ faceData = [present |-> FALSE]
    /\ isPaused = FALSE
    /\ cameraEnabled = TRUE
    /\ streamRef = TRUE
    /\ starting = 0
    /\ leaked = 0
    /\ isPredicting = TRUE
    /\ effectDue = FALSE
    /\ sampled = "none"
    /\ InitLost
    /\ InitGameLogic
    /\ InitExtra
    /\ seenHand = [present |-> FALSE, gesture |-> "NONE"]
    /\ sqDist = [id \in Ids(GrabScene) |-> 2501]
    /\ isGrabbed = [id \in Ids(GrabScene) |-> FALSE]
    /\ wasGrabbed = [id \in Ids(GrabScene) |-> FALSE]
    /\ directive = [id \in Ids(GrabScene) |-> bodyProps(TypeOf(id))]
    /\ stepped = FALSE

\* a pinching hand, a closed fist, no hand
GrabSamples ==
    {HandSample(50, 50, 50, 50, 50, 10), HandSample(0, 0, 0, 0, 0, 100), NoHand}

grabRest == <<regVars, lostVars, gameVars, extraVars>>

\* the camera runs and can be switched off; what the sampling loop
\* publishes reaches the dispatchers with the next render
NextGrab ==
    \/ ToggleCamera /\ UNCHANGED <<grabRest, grabVars>>
    \/ RunEffect /\ UNCHANGED <<grabRest, grabVars>>
    \/ \E t \in GrabSamples : Frame(t, FALSE) /\ UNCHANGED <<grabRest, grabVars>>
    \/ PredictWebcam /\ UNCHANGED <<grabRest, grabVars>>
    \/ RenderScene /\ UNCHANGED <<grabRest, handVars>>
    \/ \E id \in DOMAIN sqDist, d \in DistGrid :
          Move(id, d) /\ UNCHANGED <<grabRest, handVars>>
    \/ DispatcherFrames /\ UNCHANGED <<grabRest, handVars>>

SpecGrab == InitGrab /\ [][NextGrab]_vars

(***************************************************************************)
(* GameLogic: the frame callback that turns gestures into registry calls.  *)
(* The clock is in hundredths of a second.  The callback reads handData,   *)
(* lastSpawnTime and lastClearTime of the render it was created in;        *)
(* setLastSpawnTime and setLastClearTime reach it with the next render.    *)
(***************************************************************************)
\* now - lastSpawnTime > 0.12
SpawnGap == 12

\* now - lastClearTime > 1.5
ClearGap == 150

\* what GameLogic would render with now
RenderedNow ==
    [hand |-> Seen(handData),
     times |-> [spawn |-> lastSpawnTime, clear |-> lastClearTime]]

RenderDue == seenHand # RenderedNow.hand \/ seenTimes # RenderedNow.times

\* the frame callback at clock reading clock + d; rnd is Math.random() > 0.7
GameLogicFrame(d, rnd) ==
    LET now == clock + d
        h == seenHand
        connect == h.present /\ ~wasPresent
        pointing == h.present /\ h.gesture = "POINTING"
                       /\ now - seenTimes.spawn > SpawnGap
        pinky == h.present /\ h.gesture = "PINKY_UP"
                    /\ now - seenTimes.clear > ClearGap
        peace == h.present /\ h.gesture = "PEACE" /\ rnd
        holding == h.present /\ h.gesture = "PINKY_UP"
        start == IF hold.start >= 0 THEN hold.start ELSE now
    IN  /\ now <= MaxClock
        /\ RenderDue => stale < MaxStale
        /\ (pointing \/ peace) => uuidv4 <= MaxGameSpawns
        /\ clock' = now
        /\ stale' = IF RenderDue THEN stale + 1 ELSE stale
        /\ IF isPaused
           THEN UNCHANGED <<objects, cloudRefs, last, lastSpawnTime, lastClearTime,
                            wasPresent, owed, hold>>
           ELSE /\ wasPresent' = h.present
                /\ owed' = IF connect /\ owed > -1 THEN owed - 1 ELSE owed
                /\ objects' = IF pointing THEN addObject(objects, "box", uuidv4)
                              ELSE IF pinky
                              THEN clearObjects(objects, cloudRefs).objects
                              ELSE IF peace
                              THEN addObject(objects, "liquid", uuidv4)
                              ELSE objects
                /\ cloudRefs' = IF pinky
                                THEN clearObjects(objects, cloudRefs).cloudRefs
                                ELSE cloudRefs
                /\ last' = IF pointing \/ peace
                           THEN [op |-> "addObject", hit |-> TRUE, had |-> Had]
                           ELSE IF pinky
                           THEN [op |-> "clearObjects", hit |-> TRUE, had |-> Had]
                           ELSE last
                /\ lastSpawnTime' = IF pointing THEN now ELSE lastSpawnTime
                /\ lastClearTime' = IF pinky THEN now ELSE lastClearTime
                /\ hold' = IF ~holding THEN NoHold
                           ELSE [start |-> start,
                                 clears |-> IF pinky /\ now - start <= 300
                                                  /\ hold.clears < 3
                                            THEN hold.clears + 1
                                            ELSE hold.clears]
        /\ UNCHANGED <<mounted, seenHand, seenTimes>>

\* GameLogic renders again: the callback of the next frame reads the
\* current handData and the times last set
RenderGameLogic ==
    /\ RenderDue
    /\ seenHand' = RenderedNow.hand
    /\ seenTimes' = RenderedNow.times
    /\ stale' = 0
    /\ UNCHANGED <<clock, lastSpawnTime, lastClearTime, wasPresent, owed, hold>>

\* predictWebcam, with the appearance of the hand counted
CountedPredict ==
    /\ PredictWebcam
    /\ owed' = IF handData'.present /\ ~handData.present /\ owed < 2
               THEN owed + 1 ELSE owed
    /\ UNCHANGED <<clock, lastSpawnTime, lastClearTime, seenTimes, wasPresent,
                   stale, hold>>

\* the camera runs, the scene is empty
InitGame ==
    /\ InitRegistry
    /\ tracker = NoHand
    /\ trackerFace = FALSE
    /\ handData = [present |-> FALSE, gesture |-> "NONE", metrics |-> ZeroMetrics]
    /\ faceData = [present |-> FALSE]
    /\ isPaused = FALSE
    /\ cameraEnabled = TRUE
    /\ streamRef = TRUE
    /\ starting = 0
    /\ leaked = 0
    /\ isPredicting = TRUE
    /\ effectDue = FALSE
    /\ sampled = "none"
    /\ InitScene

\* frame intervals: 50 frames a second, 2 frames a second
Deltas == {2, 50}

\* a pinky-up hand, a pointing hand
GamePoses == {HandSample(0, 0, 0, 0, 100, 100), HandSample(0, 100, 0, 0, 0, 100)}

gameRest == <<spawned, plan, perturbed, lostVars, sqDist, isGrabbed, wasGrabbed,
              directive, stepped, extraVars>>

\* the hand enters the picture once, at any time, and holds its pose
NextGame ==
    \/ \E t \in GamePoses :
          /\ tracker = NoHand
          /\ Frame(t, FALSE)
          /\ UNCHANGED <<regVars, sceneVars>>
    \/ CountedPredict
          /\ UNCHANGED <<regVars, lostVars, grabVars, extraVars>>
    \/ RenderGameLogic
          /\ UNCHANGED <<regVars, handVars, gameRest>>
    \/ \E d \in Deltas :
          GameLogicFrame(d, FALSE) /\ UNCHANGED <<handVars, gameRest>>

SpecGame == InitGame /\ [][NextGame]_vars

\* a hand showing no gesture, a peace sign
EdgePoses == {HandSample(50, 40, 40, 40, 40, 100), HandSample(0, 100, 100, 0, 0, 100)}

\* no frame is due: the simulation is paused, or a frame of GameLogic has
\* seen the handData now published
CaughtUp == isPaused \/ (~RenderDue /\ wasPresent = handData.present)

\* the hand comes and goes, the simulation is paused and resumed; while
\* the simulation runs handData changes only once GameLogic has caught up,
\* and no sample is taken between a change of isPaused and its effect
NextEdge ==
    \/ SetPaused /\ UNCHANGED <<regVars, sceneVars>>
    \/ CaughtUp /\ RunEffect /\ UNCHANGED <<regVars, sceneVars>>
    \/ StartResolve /\ UNCHANGED <<regVars, sceneVars>>
    \/ \E t \in EdgePoses \cup {NoHand} :
          Frame(t, FALSE) /\ UNCHANGED <<regVars, sceneVars>>
    \/ /\ CaughtUp /\ ~effectDue
       /\ CountedPredict
       /\ UNCHANGED <<regVars, lostVars, grabVars, extraVars>>
    \/ RenderGameLogic
          /\ UNCHANGED <<regVars, handVars, gameRest>>
    \/ \E rnd \in BOOLEAN :
          GameLogicFrame(50, rnd) /\ UNCHANGED <<handVars, gameRest>>

SpecEdge == InitGame /\ [][NextEdge]_vars

(***************************************************************************)
(* SmartObjectDispatcher: the proximity tint of its frame callback.        *)
(* Distances are in tenths, so squared distances are in hundredths and     *)
(* the square of every distance below has an exact root; factors are in    *)
(* hundredths.  tint.dists holds the squared distance from the body to     *)
(* every cloud ref of the store.                                           *)
(***************************************************************************)
SetMin(S) == CHOOSE x \in S : \A y \in S : x <= y

\* Math.sqrt on a perfect square
Sqrt(n) == CHOOSE r \in 0..n : r * r = n

proximityTint_inclusive(type, dists) ==
    IF type = "cloud" THEN [toward |-> "none", factor |-> 0]
    ELSE IF dists # {} /\ SetMin(dists) <= 22500
    THEN [toward |-> "cloudColor",
          factor |-> 100 - Max0(Sqrt(SetMin(dists)) - 50)]
    ELSE [toward |-> "base", factor |-> 0]

\* if (type !== 'cloud') { minSqDist over cloudRefs (Infinity if none);
\* if (minSqDist < 225) tintFactor = 1 - Math.max(0, dist - 5) / 10, lerp
\* toward the tinted colour; else lerp toward the base colour }
proximityTint(type, dists) ==
    IF type = "cloud" THEN [toward |-> "none", factor |-> 0]
    ELSE IF dists # {} /\ SetMin(dists) < 22500
    THEN [toward |-> "cloudColor",
          factor |-> 100 - Max0(Sqrt(SetMin(dists)) - 50)]
    ELSE [toward |-> "base", factor |-> 0]

\* distances 0, 4.9, 5, 5.1, 10, 14.9, 15 and 15.1, squared
TintGrid == {0, 2401, 2500, 2601, 10000, 22201, 22500, 22801}

MaxEmitters == 2

\* the bodies moved: a dispatcher of this type sees these emitter distances
PlaceBodies(type, dists) ==
    /\ <<type, dists>> # <<tint.type, tint.dists>>
    /\ tint' = [type |-> type, dists |-> dists, out |-> NotEvaluated]
    /\ UNCHANGED <<pacing, loop, isCameraSwitching, switchTimers, envVars,
                   absentFor>>

TintFrame ==
    /\ ~isPaused
    /\ tint' = [tint EXCEPT !.out = proximityTint(tint.type, tint.dists)]
    /\ UNCHANGED <<pacing, loop, isCameraSwitching, switchTimers, envVars,
                   absentFor>>

NextTint ==
    \/ \E type \in ObjectTypes,
          dists \in {D \in SUBSET TintGrid : Cardinality(D) <= MaxEmitters} :
          PlaceBodies(type, dists)
             /\ UNCHANGED <<regVars, handVars, lostVars, grabVars, gameVars>>
    \/ TintFrame /\ UNCHANGED <<regVars, handVars, lostVars, grabVars, gameVars>>

SpecTint == Init /\ [][NextTint]_vars

(***************************************************************************)
(* HandManager: who starts and who ends the requestAnimationFrame chain of *)
(* predictWebcam.  loop.pending counts the callbacks scheduled and not yet *)
(* run or cancelled; requestRef.current names the one scheduled last.      *)
(***************************************************************************)
\* predictWebcam called with the cameraEnabled && !isPaused of its closure
predictWebcam(run, flag, pending) ==
    IF run THEN [isPredicting |-> TRUE, pending |-> pending + 1]
    ELSE [isPredicting |-> FALSE, pending |-> pending]

playAndPredict_unguarded(flag, pending, loaded) ==
    IF loaded THEN predictWebcam(TRUE, flag, pending)
    ELSE [isPredicting |-> flag, pending |-> pending]

\* playAndPredict: if (!isPredicting.current && handLandmarkerRef.current)
\* predictWebcam(); startWebcam only gets here from a render where the
\* camera should run
playAndPredict(flag, pending, loaded) ==
    IF ~flag /\ loaded THEN predictWebcam(TRUE, flag, pending)
    ELSE [isPredicting |-> flag, pending |-> pending]

\* the run effect; stopWebcam also cancels the callback requestRef names
LoopRunEffect ==
    /\ RunEffect
    /\ loop' = IF ~(cameraEnabled /\ ~isPaused) \/ streamRef
               THEN [loop EXCEPT !.pending = Max0(@ - 1), !.loadedDataDue = FALSE]
               ELSE loop

\* getUserMedia resolved: the stream is installed; with readyState >= 2
\* playAndPredict runs at once, otherwise it becomes the onloadeddata handler
LoopStartResolve(ready) ==
    LET played == playAndPredict(isPredicting, loop.pending, loop.modelLoaded)
    IN  /\ starting > 0
        /\ streamRef => leaked < MaxLeaked
        /\ starting' = starting - 1
        /\ leaked' = IF streamRef THEN leaked + 1 ELSE leaked
        /\ streamRef' = TRUE
        /\ isPredicting' = IF ready THEN played.isPredicting ELSE isPredicting
        /\ loop' = IF ready THEN [loop EXCEPT !.pending = played.pending]
                   ELSE [loop EXCEPT !.loadedDataDue = TRUE]
        /\ sampled' = "installed"
        /\ UNCHANGED <<tracker, trackerFace, handData, faceData, isPaused,
                       cameraEnabled, effectDue>>

\* the video fires loadeddata: the handler set last runs
LoadedData ==
    LET played == playAndPredict(isPredicting, loop.pending, loop.modelLoaded)
    IN  /\ loop.loadedDataDue
        /\ streamRef
        /\ isPredicting' = played.isPredicting
        /\ loop' = [loop EXCEPT !.pending = played.pending,
                                !.loadedDataDue = FALSE]
        /\ sampled' = "loadeddata"
        /\ UNCHANGED <<tracker, trackerFace, handData, faceData, isPaused,
                       cameraEnabled, streamRef, starting, leaked, effectDue>>

\* initMediaPipe resolved: both landmarker refs are set, setIsModelLoaded(true)
ModelLoads ==
    /\ ~loop.modelLoaded
    /\ loop' = [loop EXCEPT !.modelLoaded = TRUE, !.modelEffectDue = TRUE]
    /\ UNCHANGED handVars

\* useEffect(..., [isModelLoaded]): with the video playing and no loop
\* running, predictWebcam() of this render
ModelEffect(playing) ==
    LET called == predictWebcam(cameraEnabled /\ ~isPaused, isPredicting,
                                loop.pending)
        calls == playing /\ ~isPredicting
    IN  /\ loop.modelEffectDue
        /\ playing => streamRef
        /\ isPredicting' = IF calls THEN called.isPredicting ELSE isPredicting
        /\ loop' = [loop EXCEPT !.modelEffectDue = FALSE,
                                !.pending = IF calls THEN called.pending ELSE @]
        /\ sampled' = "modeleffect"
        /\ UNCHANGED <<tracker, trackerFace, handData, faceData, isPaused,
                       cameraEnabled, streamRef, starting, leaked, effectDue>>

\* a scheduled callback runs: a chain only exists for a closure in which
\* the camera should run, so the pass schedules its successor
RafCallback ==
    LET called == predictWebcam(TRUE, isPredicting, loop.pending - 1)
    IN  /\ loop.pending > 0
        /\ isPredicting' = called.isPredicting
        /\ loop' = [loop EXCEPT !.pending = called.pending]
        /\ sampled' = "pass"
        /\ UNCHANGED <<tracker, trackerFace, handData, faceData, isPaused,
                       cameraEnabled, streamRef, starting, leaked, effectDue>>

loopRest == <<regVars, lostVars, grabVars, gameVars, pacing, tint,
              isCameraSwitching, switchTimers, envVars, absentFor>>

NextLoop ==
    \/ SetPaused /\ UNCHANGED <<loopRest, loop>>
    \/ ToggleCamera /\ UNCHANGED <<loopRest, loop>>
    \/ LoopRunEffect /\ UNCHANGED loopRest
    \/ \E ready \in BOOLEAN : LoopStartResolve(ready) /\ UNCHANGED loopRest
    \/ LoadedData /\ UNCHANGED loopRest
    \/ ModelLoads /\ UNCHANGED loopRest
    \/ \E playing \in BOOLEAN : ModelEffect(playing) /\ UNCHANGED loopRest
    \/ RafCallback /\ UNCHANGED loopRest

SpecLoop == Init /\ [][NextLoop]_vars

(***************************************************************************)
(* The Switch Input button and isCameraSwitching.  The button is disabled  *)
(* while the camera is disabled; it stays in reach while paused.  The      *)
(* camera index only matters as a dependency of the run effect.            *)
(***************************************************************************)
\* cycleCamera: cameraIndex + 1, isCameraSwitching: true
CycleCamera ==
    /\ cameraEnabled
    /\ isCameraSwitching' = TRUE
    /\ effectDue' = TRUE
    /\ sampled' = "cycle"
    /\ UNCHANGED <<tracker, trackerFace, handData, faceData, isPaused,
                   cameraEnabled, streamRef, starting, leaked, isPredicting,
                   switchTimers>>

\* startWebcam got its stream: setTimeout(() => setCameraSwitching(false), 800)
SwitchStartResolve ==
    /\ switchTimers < MaxTimers
    /\ StartResolve
    /\ switchTimers' = switchTimers + 1
    /\ UNCHANGED isCameraSwitching

\* startWebcam found no device or caught an error: setCameraSwitching(false)
SwitchStartFail ==
    /\ StartFail
    /\ isCameraSwitching' = FALSE
    /\ UNCHANGED switchTimers

\* the 800 ms timer fires
SwitchTimeout ==
    /\ switchTimers > 0
    /\ switchTimers' = switchTimers - 1
    /\ isCameraSwitching' = FALSE
    /\ UNCHANGED handVars

switchRest == <<regVars, lostVars, grabVars, gameVars, pacing, tint, loop,
                envVars, absentFor>>

\* a click is handled once the effect of the commit before it has run
NextSwitch ==
    \/ /\ ~effectDue
       /\ SetPaused
       /\ UNCHANGED <<switchRest, isCameraSwitching, switchTimers>>
    \/ /\ ~effectDue
       /\ ToggleCamera
       /\ UNCHANGED <<switchRest, isCameraSwitching, switchTimers>>
    \/ /\ ~effectDue
       /\ CycleCamera
       /\ UNCHANGED switchRest
    \/ RunEffect /\ UNCHANGED <<switchRest, isCameraSwitching, switchTimers>>
    \/ SwitchStartResolve /\ UNCHANGED switchRest
    \/ SwitchStartFail /\ UNCHANGED switchRest
    \/ SwitchTimeout /\ UNCHANGED switchRest

\* the run effect runs after every commit, getUserMedia settles and a timer
\* that was set fires; the user may do nothing more
SpecSwitch ==
    /\ Init
    /\ [][NextSwitch]_vars
    /\ WF_vars(RunEffect /\ UNCHANGED <<switchRest, isCameraSwitching, switchTimers>>)
    /\ WF_vars((SwitchStartResolve \/ SwitchStartFail) /\ UNCHANGED switchRest)
    /\ WF_vars(SwitchTimeout /\ UNCHANGED switchRest)

(***************************************************************************)
(* Overlay: the gesture effect that cycles the environment.  The effect    *)
(* runs when handData.gesture or lastGesture changed since its last run,   *)
(* and it runs before the next sample is published.                        *)
(***************************************************************************)
ENVIRONMENTS ==
    <<"void", "grid", "vaporwave", "matrix", "white_room", "midnight", "sunset",
      "toxic", "gold", "ice", "desert", "forest", "lava">>

\* ENVIRONMENTS.indexOf(env), zero-based, -1 if absent
indexOf(env) ==
    IF \E i \in DOMAIN ENVIRONMENTS : ENVIRONMENTS[i] = env
    THEN (CHOOSE i \in DOMAIN ENVIRONMENTS : ENVIRONMENTS[i] = env) - 1
    ELSE -1

\* cycleEnvironment: ENVIRONMENTS[(idx + 1) % ENVIRONMENTS.length]
cycleEnvironment(env) ==
    ENVIRONMENTS[((indexOf(env) + 1) % Len(ENVIRONMENTS)) + 1]

checkEnvCycle_level(gesture, prev) == gesture = "THREE_FINGERS"

\* checkEnvCycle: gesture === THREE_FINGERS && lastGesture !== THREE_FINGERS
checkEnvCycle(gesture, prev) ==
    gesture = "THREE_FINGERS" /\ prev # "THREE_FINGERS"

gestureDepsNow == <<handData.gesture, lastGesture>>

\* useEffect(..., [handData.gesture, lastGesture, ...])
GestureEffect ==
    /\ gestureEdge.deps # gestureDepsNow
    /\ environment' = IF checkEnvCycle(handData.gesture, lastGesture)
                      THEN cycleEnvironment(environment) ELSE environment
    /\ lastGesture' = handData.gesture
    /\ gestureEdge' = [gestureEdge EXCEPT !.deps = gestureDepsNow]

\* predictWebcam, with the entries into THREE_FINGERS counted
EdgePredict ==
    LET enters == handData'.gesture = "THREE_FINGERS"
                     /\ handData.gesture # "THREE_FINGERS"
    IN  /\ gestureEdge.deps = gestureDepsNow
        /\ PredictWebcam
        /\ enters => gestureEdge.entries < MaxEntries
        /\ gestureEdge' = IF enters THEN [gestureEdge EXCEPT !.entries = @ + 1]
                          ELSE gestureEdge
        /\ UNCHANGED <<environment, lastGesture>>

\* three fingers, a peace sign
EnvPoses == {HandSample(0, 100, 100, 100, 0, 100), HandSample(0, 100, 100, 0, 0, 100)}

envRest == <<regVars, lostVars, grabVars, gameVars, pacing, tint, loop,
             isCameraSwitching, switchTimers, absentFor>>

NextEnv ==
    \/ \E t \in EnvPoses \cup {NoHand} :
          Frame(t, FALSE) /\ UNCHANGED <<envRest, envVars>>
    \/ EdgePredict /\ UNCHANGED envRest
    \/ GestureEffect /\ UNCHANGED <<envRest, handVars>>

SpecEnv == InitGame /\ [][NextEnv]_vars

\* the sampling loop alone: the camera runs
SpecPace == InitGame /\ [][NextPace]_vars

(***************************************************************************)
(* The decision tree alone: the camera runs, the Tracker holds one hand    *)
(* sample drawn from a grid around the thresholds, predictWebcam runs.     *)
(***************************************************************************)
ScoreGrid == {0, 10, 15, 20, 50, 75, 80, 85, 100}

ThumbGrid == {0, 100}

PinchDistGrid == {0, 47, 48, 120}

ClassifierInputs ==
    {HandSample(t, i, m, r, p, d) :
        t \in ThumbGrid, i \in ScoreGrid, m \in ScoreGrid, r \in ScoreGrid,
        p \in ScoreGrid, d \in PinchDistGrid}

InitClassifier ==
    /\ InitRegistry
    /\ InitScene
    /\ tracker \in ClassifierInputs
    /\ trackerFace = FALSE
    /\ handData = [present |-> FALSE, gesture |-> "NONE", metrics |-> ZeroMetrics]
    /\ faceData = [present |-> FALSE]
    /\ isPaused = FALSE
    /\ cameraEnabled = TRUE
    /\ streamRef = TRUE
    /\ starting = 0
    /\ leaked = 0
    /\ isPredicting = TRUE
    /\ effectDue = FALSE
    /\ sampled = "none"

NextClassifier == PredictWebcam /\ UNCHANGED handRest

SpecClassifier == InitClassifier /\ [][NextClassifier]_vars

(***************************************************************************)
(* Claims about the object registry.                                       *)
(***************************************************************************)

\* C1: after any sequence of addObject, updateObject, removeObject,
\* clearObjects and resetApp calls the registry never holds more than 100
\* live non-cloud objects.
C1_NonEmitterCap == NonCloudCount(objects) <= 100

\* C1 witness: a spawn that had to evict left exactly 100 non-cloud objects.
C1_AtCapacity ==
    /\ last.op = "addObject"
    /\ NonCloudCount(objects) = 100
    /\ objects[1].id > 1

\* C2: after n sequential spawns on the empty registry the list is exactly
\* the last min(n, 100) objects spawned, in insertion order.
C2_LastHundredSurvive ==
    LET n == Len(spawned)
        m == IF n < 100 THEN n ELSE 100
    IN  objects = SubSeq(spawned, n - m + 1, n)

\* C2 witness: 150 spawns done, 100 objects left, the oldest 50 evicted.
C2_After150 ==
    /\ Len(spawned) = 150
    /\ Len(objects) = 100
    /\ objects[1] = spawned[51]
    /\ objects[100] = spawned[150]

\* C3 (as claimed): a spawn never removes a cloud from the list, and a spawn
\* made while fewer than 100 non-cloud objects are live evicts nothing.
C3_EvictionSparesEmitters ==
    [][last'.op = "addObject" =>
          /\ CloudIds(objects) \subseteq CloudIds(objects')
          /\ NonCloudCount(objects) < 100 => Ids(objects) \subseteq Ids(objects')]_vars

\* C4 (as claimed): in every state every id in cloudRefs is the id of a live
\* cloud object.
C4_NoDanglingEmitter == cloudRefs \subseteq CloudIds(objects)

\* C5: right after clearObjects both the object list and cloudRefs are
\* empty.
C5_ClearEmptiesBoth ==
    last.op = "clearObjects" => objects = <<>> /\ cloudRefs = {}

\* C5 witness: clearObjects ran on a registry that held objects and refs.
C5_ClearedNonEmpty == last.op = "clearObjects" /\ last.had

\* C6: updateObject and removeObject called with an id that is not in the
\* list change neither the list nor cloudRefs.
C6_AbsentIdNoOp ==
    [][(last'.op \in {"updateObject", "removeObject"} /\ ~last'.hit) =>
          (objects' = objects /\ cloudRefs' = cloudRefs)]_vars

\* C6 witness: a remove with an absent id ran on a registry holding several
\* objects and a cloud ref, and they are still there.
C6_MissOnPopulated ==
    /\ last.op = "removeObject"
    /\ ~last.hit
    /\ Len(objects) >= 2
    /\ cloudRefs # {}

(***************************************************************************)
(* Claims about the gesture classifier.  The thresholds are those of the   *)
(* claims, on the scales of the sample: hundredths for the finger scores,  *)
(* pinch score (120 - pinchDist) / 120.                                    *)
(***************************************************************************)
MiddleFingerRule(s) ==
    s.middle > 80 /\ s.index < 20 /\ s.ring < 20 /\ s.pinky < 20

PinchRule(s) == 10 * (120 - s.pinchDist) > 6 * 120

PointingRule(s) ==
    s.index > 80 /\ s.middle < 20 /\ s.ring < 20 /\ s.pinky < 20

PinkyUpRule(s) ==
    s.pinky > 75 /\ s.index < 15 /\ s.middle < 15 /\ s.ring < 15

ThreeFingersRule(s) ==
    s.index * s.middle * s.ring * (100 - s.pinky) > 60000000

PeaceRule(s) == s.index + s.middle + (100 - s.ring) + (100 - s.pinky) > 240

ClosedFistRule(s) == s.index + s.middle + s.ring + s.pinky < 60

OpenPalmRule(s) == s.index + s.middle + s.ring + s.pinky > 200

\* the gesture of the first matching rule of the ordered list
FirstMatch(s) ==
    CASE MiddleFingerRule(s) -> "MIDDLE_FINGER"
      [] PinchRule(s) -> "PINCH"
      [] PointingRule(s) -> "POINTING"
      [] PinkyUpRule(s) -> "PINKY_UP"
      [] ThreeFingersRule(s) -> "THREE_FINGERS"
      [] PeaceRule(s) -> "PEACE"
      [] ClosedFistRule(s) -> "CLOSED_FIST"
      [] OpenPalmRule(s) -> "OPEN_PALM"
      [] OTHER -> "NONE"

\* C7: a sample with middle > 0.8 and index, ring, pinky < 0.2 is published
\* as MiddleFinger whatever the thumb score and the pinch score are.
C7_MiddleFingerRegardless ==
    (handData.present /\ MiddleFingerRule(tracker)) =>
        handData.gesture = "MIDDLE_FINGER"

\* C7 witness: such a sample with pinch score > 0.6 and the thumb extended.
C7_MiddleFingerWhilePinching ==
    /\ handData.present
    /\ MiddleFingerRule(tracker)
    /\ 10 * handData.metrics.pinch > 6 * PinchDen
    /\ tracker.thumb = 100
    /\ handData.gesture = "MIDDLE_FINGER"

\* C8: whenever the published pinch score is > 0.6 the gesture is none of
\* Pointing, PinkyUp, ThreeFingers, Peace, ClosedFist, OpenPalm, None.
C8_PinchWins ==
    (handData.present /\ 10 * handData.metrics.pinch > 6 * PinchDen) =>
        handData.gesture \notin {"POINTING", "PINKY_UP", "THREE_FINGERS", "PEACE",
                                 "CLOSED_FIST", "OPEN_PALM", "NONE"}

\* C8 witness: a sample matching the Pointing rule too is published as Pinch.
C8_PinchOverPointing ==
    /\ handData.present
    /\ 10 * handData.metrics.pinch > 6 * PinchDen
    /\ PointingRule(tracker)
    /\ handData.gesture = "PINCH"

\* C9 (as claimed): the gesture is that of the first matching rule, and a
\* sample matching both the ThreeFingers and the Peace rule is ThreeFingers.
C9_FirstMatchThreeOverPeace ==
    handData.present =>
        /\ handData.gesture = FirstMatch(tracker)
        /\ (ThreeFingersRule(tracker) /\ PeaceRule(tracker)) =>
               handData.gesture = "THREE_FINGERS"

\* C9 (amended): the gesture is that of the first matching rule, and a
\* sample matching both the ThreeFingers and the Peace rule, with a pinch
\* score not above 0.6, is ThreeFingers.
C9_FirstMatchThreeOverPeaceUnlessPinch ==
    handData.present =>
        /\ handData.gesture = FirstMatch(tracker)
        /\ (ThreeFingersRule(tracker) /\ PeaceRule(tracker) /\ ~PinchRule(tracker)) =>
               handData.gesture = "THREE_FINGERS"

\* C9 witness: a sample matching ThreeFingers and Peace, published ThreeFingers.
C9_ThreeAndPeace ==
    /\ handData.present
    /\ ThreeFingersRule(tracker)
    /\ PeaceRule(tracker)
    /\ handData.gesture = "THREE_FINGERS"

(***************************************************************************)
(* Claims about the published hand data.                                   *)
(***************************************************************************)

\* C10 (as claimed): whenever the hand is not present the published gesture
\* is None and every metric is zero.
C10_AbsentHandIsZero ==
    ~handData.present =>
        handData.gesture = "NONE" /\ handData.metrics = ZeroMetrics

(***************************************************************************)
(* Claims about the hand-lost event.                                       *)
(***************************************************************************)

\* C11 (as claimed): during one continuous absence of the hand the hand-lost
\* event fires no more than once, and when the hand ends an absence of
\* three or more samples the event has fired exactly once in it.
C11_HandLostOncePerAbsence ==
    /\ [](absence.fires <= 1)
    /\ [][(handData'.present /\ ~handData.present /\ absence.samples >= 3) =>
             absence.fires = 1]_vars

(***************************************************************************)
(* Claims about the grab logic.  A state with `stepped` is the state right *)
(* after a frame: seenHand and sqDist are what that frame read, wasGrabbed *)
(* what it found.                                                          *)
(***************************************************************************)

\* C12: no object goes from Free to Grabbed in a frame where its squared
\* distance is >= 12.25, and no object is Grabbed after a frame in which its
\* squared distance is > 25.
C12_GrabRadii ==
    stepped =>
        \A id \in DOMAIN isGrabbed :
            /\ (~wasGrabbed[id] /\ isGrabbed[id]) => sqDist[id] < 1225
            /\ sqDist[id] > 2500 => ~isGrabbed[id]

\* C12 witness: under Pinch, a frame kept an object Grabbed at squared
\* distance exactly 25 and left another Free at exactly 12.25.
C12_BothBoundaries ==
    /\ stepped
    /\ PinchSeen(seenHand)
    /\ \E id \in DOMAIN isGrabbed : isGrabbed[id] /\ sqDist[id] = 2500
    /\ \E id \in DOMAIN isGrabbed :
           ~wasGrabbed[id] /\ ~isGrabbed[id] /\ sqDist[id] = 1225

\* C13: after every frame whose gesture is not Pinch, or whose hand is not
\* present, every object is Free (so no object became Grabbed in it).
C13_GrabbedOnlyWhilePinch ==
    (stepped /\ ~(seenHand.present /\ seenHand.gesture = "PINCH")) =>
        \A id \in DOMAIN isGrabbed : ~isGrabbed[id]

\* C13 witness: a frame without Pinch released an object that was Grabbed
\* and still within the acquisition radius.
C13_ReleasedByGesture ==
    /\ stepped
    /\ ~(seenHand.present /\ seenHand.gesture = "PINCH")
    /\ \E id \in DOMAIN isGrabbed :
           wasGrabbed[id] /\ ~isGrabbed[id] /\ sqDist[id] < 1225

\* C14 (as claimed): a cloud is never Grabbed and no spring force is applied
\* to it.
C14_EmitterNeverGrabbed ==
    \A id \in CloudIds(objects) \cap DOMAIN isGrabbed :
        ~isGrabbed[id] /\ ~directive[id].force


\* C15: a PinkyUp hold of 3 seconds calls clearObjects exactly twice: at the
\* first frame of the hold and about 1.5 s later, never a third time, at
\* whatever clock reading the hold starts
C15_TwoClearsPerHold ==
    hold.start >= 0 =>
        /\ hold.clears >= 1
        /\ hold.clears <= 2
        /\ (hold.clears = 2 /\ clock - hold.start <= 300)
               => lastClearTime - hold.start > ClearGap
        /\ clock - hold.start >= 300 => hold.clears = 2

\* C16: two consecutive PinkyUp calls of clearObjects are more than 1.5 s of
\* clock apart, however the frames interleave with the render that
\* publishes lastClearTime
C16_ClearDebounced ==
    [][(lastClearTime' # lastClearTime /\ lastClearTime > 0)
          => lastClearTime' - lastClearTime > ClearGap]_vars

\* C17: every Pointing trigger adds exactly one box, and two consecutive
\* triggers are more than 0.12 s of clock apart, however the frames
\* interleave with the render that publishes lastSpawnTime
C17_SpawnRateLimited ==
    [][lastSpawnTime' # lastSpawnTime
          => /\ Len(objects') = Len(objects) + 1
             /\ objects'[Len(objects')].type = "box"
             /\ lastSpawnTime > 0 => lastSpawnTime' - lastSpawnTime > SpawnGap]_vars

\* C18: every appearance of the hand is notified exactly once, and nothing
\* is notified without an appearance: while the simulation runs, once the
\* detector holds the hand as present and the hand is present, no
\* appearance is left unnotified
C18_AppearanceNotifiedOnce ==
    /\ owed >= 0
    /\ (~isPaused /\ wasPresent /\ handData.present /\ ~RenderDue) => owed = 0


\* C19: once the teardown for a pause or a disabled camera has run, no
\* sampling pass is scheduled, no stream is left with running tracks, and
\* hand presence and face presence are false
C19_TeardownQuiesces ==
    (~effectDue /\ (isPaused \/ ~cameraEnabled)) =>
        /\ ~isPredicting
        /\ ~streamRef
        /\ leaked = 0
        /\ ~handData.present
        /\ ~faceData.present

\* C20: a sample on which the Tracker throws publishes nothing: handData
\* and faceData are those held before, the loop stays scheduled, and the
\* sample after it is published as usual
C20_FailedSampleDropped ==
    [][/\ sampled' = "dropped"
           => (handData' = handData /\ faceData' = faceData /\ isPredicting')
       /\ (sampled = "dropped" /\ sampled' = "hand")
           => handData' = handSample(tracker)]_vars

\* a failed sample left a pinching hand and a face published
C20_StateHeldOverFailure ==
    /\ sampled = "dropped"
    /\ throws(tracker)
    /\ handData.present /\ handData.gesture = "PINCH"
    /\ faceData.present


\* C21: two consecutive samples that reach the Tracker are at least 32 ms
\* apart, however many animation frames fire between them
C21_SamplesThrottled == pacing.gap >= 0 => pacing.gap >= ThrottleMs

\* two samples exactly 32 ms apart with three or more passes between them
C21_FastDisplay == pacing.gap = ThrottleMs /\ pacing.between >= 3


\* C22: under Pinch with the hand present, a frame at a squared distance in
\* [12.25, 25] leaves isGrabbed as it was
C22_HysteresisBand ==
    (stepped /\ PinchSeen(seenHand)) =>
        \A id \in DOMAIN isGrabbed :
            (sqDist[id] >= 1225 /\ sqDist[id] <= 2500)
                => isGrabbed[id] = wasGrabbed[id]

\* a frame under Pinch left one object grabbed at 25 and another free at
\* 12.25
C22_RestingInBand ==
    /\ stepped /\ PinchSeen(seenHand)
    /\ \E id \in DOMAIN isGrabbed :
          sqDist[id] = 2500 /\ isGrabbed[id] /\ wasGrabbed[id]
    /\ \E id \in DOMAIN isGrabbed :
          sqDist[id] = 1225 /\ ~isGrabbed[id] /\ ~wasGrabbed[id]


\* C23: the damping a frame sets follows the grab state and the gesture:
\* grabbed gives linear 0 and angular 0.9; free under ClosedFist gives 0.99
\* for both; free otherwise, and free once the hand is lost or the camera
\* stopped, gives the baseline of the object's kind
C23_DampingDirective ==
    stepped => \A id \in DOMAIN isGrabbed :
        LET dir == directive[id]
            fist == seenHand.present /\ seenHand.gesture = "CLOSED_FIST"
        IN  /\ isGrabbed[id]
                => (dir.linearDamping = 0 /\ dir.angularDamping = 90)
            /\ (~isGrabbed[id] /\ fist)
                => (dir.linearDamping = 99 /\ dir.angularDamping = 99)
            /\ (~isGrabbed[id] /\ ~fist)
                => (dir.linearDamping = baselineLinear(TypeOf(id))
                      /\ dir.angularDamping = 5)


Clamp(x, lo, hi) == IF x < lo THEN lo ELSE IF x > hi THEN hi ELSE x

\* C24: a frame tints a non-emitter toward the emitter colour exactly when
\* the least squared distance to a registered emitter is below 225, with
\* factor 1 - clamp((distance - 5) / 10, 0, 1); otherwise, and without any
\* emitter, it relaxes to the base colour; an emitter is never tinted
C24_ProximityTint ==
    tint.out # NotEvaluated =>
        LET near == tint.dists # {} /\ SetMin(tint.dists) < 22500
        IN  /\ tint.type = "cloud" => tint.out.toward = "none"
            /\ (tint.type # "cloud" /\ near)
                  => /\ tint.out.toward = "cloudColor"
                     /\ tint.out.factor =
                          100 - Clamp(Sqrt(SetMin(tint.dists)) - 50, 0, 100)
            /\ (tint.type # "cloud" /\ ~near) => tint.out.toward = "base"

\* a box with emitters at 15 and 15.1 relaxed to its base colour
C24_AtThreshold ==
    /\ tint.type = "box"
    /\ tint.dists = {22500, 22801}
    /\ tint.out.toward = "base"


\* C25: while the simulation is paused or the camera disabled, no stream is
\* held, no sampling loop runs and the hand is not published as present,
\* also when a startWebcam begun earlier resolves late
C25_NoStreamWhilePaused ==
    (~effectDue /\ (isPaused \/ ~cameraEnabled)) =>
        /\ ~streamRef
        /\ ~isPredicting
        /\ sampled # "installed"
        /\ ~handData.present

\* C26: every stream that was acquired is the one streamRef holds or has had
\* its tracks stopped
C26_NoStreamLeaked == leaked = 0


\* C27: at most one predictWebcam callback is scheduled at any time, and
\* isPredicting.current is true exactly when one is
C27_SingleSamplingLoop ==
    /\ loop.pending <= 1
    /\ isPredicting <=> loop.pending = 1

\* the loop runs after the landmarkers loaded and a second stream replaced
\* the first
C27_LoopAfterTwoStarts ==
    /\ loop.modelLoaded /\ ~loop.modelEffectDue
    /\ leaked = 1
    /\ sampled = "pass"
    /\ loop.pending = 1


\* C28: after every cycleCamera call isCameraSwitching returns to false,
\* also when the call is made while the simulation is paused
C28_SwitchingEnds == isCameraSwitching ~> ~isCameraSwitching


C30_LostOnlyAfterASecond ==
    (isHandLost /\ lostDeps = lostDepsNow) =>
        /\ LostCond
        /\ absentFor >= 1000

\* the hand was sampled absent and a full second later isHandLost is true
C30_LostAfterSampledAbsence ==
    /\ isHandLost
    /\ lostDeps = lostDepsNow
    /\ sampled = "nohand"
    /\ absentFor = 1000

====
